---------------------------- MODULE Spec2Model ----------------------------
(***************************************************************************)
(* The embedded broker supervisor of nodes/nats-suite-server-manager.js    *)
(* as a state machine: the closure variables of NatsServerManagerNode, the *)
(* per-spawn closure of startEmbeddedServer (started, startupOutput, the   *)
(* pending promise, the 10 s timer), the child processes and the temporary *)
(* config files on disk.  One action per handler; the microtask that       *)
(* follows a rejection (the catch of startServer) is part of the action    *)
(* that rejects.                                                           *)
(* The update-subjects operation of nodes/nats-suite-stream-publisher.js   *)
(* and the start and stop of the service node are modelled beside it, each *)
(* in a variable and a specification of its own.                           *)
(***************************************************************************)
EXTENDS Integers, Sequences, FiniteSets, TLC

\* ------------------------------------------------------------------ bounds
MaxProcs == 2        \* broker processes spawned in one behaviour
MaxOut == 2          \* output chunks delivered in one behaviour
MaxCalls == 2        \* calls of the binary resolver in one behaviour of ResolveSpec
MaxSizeLen == 3      \* characters of a max-memory-store value in CompileSpec
MaxSubjLen == 3      \* characters of msg.subjects in PublisherSpec
MaxOps == 2          \* stream operations in one behaviour of PublisherSpec
MaxStarts == 3       \* calls of startService past its guard in ServiceSpec
MaxFlips == 2        \* changes of the connection status in ServiceSpec

\* ------------------------------------------------------- program constants
DefaultPort == 4222
DefaultLeafPort == 7422
DefaultMqttPort == 1883

Procs == 1..MaxProcs
NoProc == 0          \* natsServerProcess = null
NoPort == 0          \* serverPort = null
NoFile == 0          \* configFile = null

\* Output is a sequence of tokens: "S" and "R" are the two halves of
\* 'Server is ready', "L" is 'Listening for client connections'.
Tokens == {"S", "R", "L"}
ReadyPhrases == {<<"S", "R">>, <<"L">>}

\* (code, signal) of an 'exit' event: a non-zero exit code, or death by signal.
ExitOutcomes == {<<"1", "null">>, <<"null", "SIGTERM">>}

\* What the version probe process does: its 'error' event (it could not be
\* launched), or its 'close' event with an exit code after printing output.
ProbeOutputs == {"", "nats-server: v2.10.7", "usage: nats-server [options]"}
ProbeOutcomes ==
  {[err |-> TRUE, output |-> "", code |-> -2]}
    \cup {[err |-> FALSE, output |-> o, code |-> c] : o \in ProbeOutputs, c \in {0, 1}}

VARIABLES
  cfg,            \* the node's configuration fields (this.port, this.serverName, ...)
  disk,           \* the paths that exist on disk (fs.existsSync)
  handle,         \* natsServerProcess: NoProc or the held process
  serverPort,     \* serverPort
  version,        \* natsServerVersion
  configFile,     \* configFile: NoFile or the path last generated
  files,          \* generated config files that exist on disk
  status,         \* the status indicator last set by setStatus
  probing,        \* startServer invocations suspended in await getNatsServerVersion
  autoTimer,      \* the auto-start timer is pending
  restartTimers,  \* pending delayed starts of restart
  closed,         \* the node's close handler has run
  crashed,        \* an event handler threw (uncaught)
  nprocs,         \* broker processes spawned so far
  proc,           \* per process: "none", "live", "signalled", "exited", "failed"
  started,        \* per process: the closure's started flag
  out,            \* per process: the closure's startupOutput
  timer,          \* per process: the 10 s startup timer is pending
  promise,        \* per process: "none", "pending", "resolved", "rejected"
  owed,           \* per process: 1 s timers set before its spawn and still pending
  failedSince,    \* history: a start has failed since the last start, restart or
                  \* toggle command was received
  pub,            \* the stream publisher node: the stream on the server and
                  \* the stream operations in flight
  svc,            \* the service node: its closure variables, its calls of
                  \* startService in flight and the services registered
  last            \* what the last handler did (its observable outputs)

vars == <<cfg, disk, handle, serverPort, version, configFile, files, status, probing,
          autoTimer, restartTimers, closed, crashed, nprocs, proc, started, out,
          timer, promise, owed, failedSince, pub, svc, last>>

\* ------------------------------------------------------------ configuration
\* NatsServerManagerNode, lines 13-55: config.x || default.
Construct(c) ==
  [c EXCEPT !.port = IF c.port = 0 THEN DefaultPort ELSE c.port,
            !.leafPort = IF c.leafPort = 0 THEN DefaultLeafPort ELSE c.leafPort,
            !.mqttPort = IF c.mqttPort = 0 THEN DefaultMqttPort ELSE c.mqttPort,
            !.binarySource = IF c.binarySource = "" THEN "auto" ELSE c.binarySource,
            !.storeDir = IF c.storeDir = "" THEN "<tmpdir>/nats-jetstream" ELSE c.storeDir]

BaseConfig ==
  [port |-> 4223, leafPort |-> 0, enableJetStream |-> FALSE,
   enableLeafNodeMode |-> FALSE, leafRemoteUrl |-> "",
   enableMqtt |-> FALSE, mqttPort |-> 1884, serverName |-> "",
   httpPort |-> "", binarySource |-> "system", customBinaryPath |-> "",
   autoStart |-> FALSE,
   leafRemoteUser |-> "", leafRemotePass |-> "", storeDir |-> "",
   maxMemoryStore |-> <<>>]          \* a string, as its sequence of characters

\* The configurations the lifecycle is explored under.
Configs ==
  { BaseConfig,
    [BaseConfig EXCEPT !.autoStart = TRUE, !.enableMqtt = TRUE, !.binarySource = ""],
    [BaseConfig EXCEPT !.enableLeafNodeMode = TRUE, !.leafRemoteUrl = "nats://hub:7422",
                       !.enableJetStream = TRUE, !.httpPort = "8222"],
    [BaseConfig EXCEPT !.enableLeafNodeMode = TRUE, !.enableMqtt = TRUE,
                       !.leafRemoteUrl = "nats://hub:7422", !.leafPort = 7423,
                       !.binarySource = "custom", !.customBinaryPath = "/opt/nats-server"],
    [BaseConfig EXCEPT !.enableLeafNodeMode = TRUE],
    [BaseConfig EXCEPT !.binarySource = "custom"],
    [BaseConfig EXCEPT !.binarySource = "custom", !.customBinaryPath = "/missing"] }

\* The paths that exist on disk while the lifecycle is explored.
ExistingPaths == {"/usr/local/bin/nats-server", "/opt/nats-server"}


\* --------------------------------------------------------- pure helpers
\* lines 143, 249, 277: parseInt(x) || d on a port number.
ParseIntOr(x, d) == IF x = 0 THEN d ELSE x

EnableLeafNode(c) == c.enableLeafNodeMode = TRUE      \* line 145
EnableMqtt(c) == c.enableMqtt = TRUE                  \* line 225
EnableJetStream(c) == c.enableJetStream # FALSE       \* line 144
RequestedPort(c) == ParseIntOr(c.port, DefaultPort)   \* line 143

\* NeedsConfigFile without the MQTT bridge.
NeedsConfigFile_OnlyLeaf(c) == EnableLeafNode(c)

\* line 242
NeedsConfigFile(c) == EnableLeafNode(c) \/ EnableMqtt(c)

\* ActualPort with the leaf port ignored.
ActualPort_IgnoresLeafPort(c) == RequestedPort(c)

\* lines 154, 249: the port the broker is told to listen on.
ActualPort(c) ==
  IF EnableLeafNode(c) THEN ParseIntOr(c.leafPort, DefaultLeafPort)
  ELSE RequestedPort(c)

\* lines 190-197, in order.
PossibleBinPaths ==
  << "<dirname>/../node_modules/.cache/nats-memory-server/nats-server",
     "<dirname>/../node_modules/nats-memory-server/.cache/nats-server",
     "/data/node_modules/node-red-contrib-nats-suite/node_modules/.cache/nats-memory-server/nats-server",
     "/usr/local/bin/nats-server",
     "/usr/bin/nats-server",
     "nats-server" >>

\* FirstBin without the existence check.
FirstBin_NoExistenceCheck(i) == PossibleBinPaths[i]

\* lines 199-209: the first candidate that is 'nats-server' or exists.
FirstBin(i) ==
  LET F[k \in 1..Len(PossibleBinPaths)] ==
        IF PossibleBinPaths[k] = "nats-server" \/ PossibleBinPaths[k] \in disk
        THEN PossibleBinPaths[k]
        ELSE IF k = Len(PossibleBinPaths) THEN "" ELSE F[k + 1]
  IN F[i]

\* ResolveBinary with a custom source that falls back to the system binary.
ResolveBinary_CustomFallsBack(c) ==
  CASE c.binarySource = "custom" /\ c.customBinaryPath \in disk ->
         [ok |-> TRUE, bin |-> c.customBinaryPath, msg |-> ""]
    [] c.binarySource \in {"custom", "system"} ->
         [ok |-> TRUE, bin |-> "nats-server", msg |-> ""]
    [] OTHER ->
         IF FirstBin(1) = ""
         THEN [ok |-> FALSE, bin |-> "", msg |-> "nats-server binary not found"]
         ELSE [ok |-> TRUE, bin |-> FirstBin(1), msg |-> ""]

\* lines 164-218: [ok, bin] or [ok = FALSE, msg, text].
ResolveBinary(c) ==
  CASE c.binarySource = "custom" ->
         IF c.customBinaryPath = ""
         THEN [ok |-> FALSE, bin |-> "",
               msg |-> "Custom binary source selected but no path specified"]
         ELSE IF c.customBinaryPath \notin disk
         THEN [ok |-> FALSE, bin |-> "", msg |-> "Custom binary not found"]
         ELSE [ok |-> TRUE, bin |-> c.customBinaryPath, msg |-> ""]
    [] c.binarySource = "system" ->
         [ok |-> TRUE, bin |-> "nats-server", msg |-> ""]
    [] OTHER ->
         IF FirstBin(1) = ""
         THEN [ok |-> FALSE, bin |-> "", msg |-> "nats-server binary not found"]
         ELSE [ok |-> TRUE, bin |-> FirstBin(1), msg |-> ""]

\* line 441: startupOutput.includes(phrase)
Includes(buf, phrase) ==
  \E i \in 1..Len(buf) :
    /\ i + Len(phrase) - 1 <= Len(buf)
    /\ SubSeq(buf, i, i + Len(phrase) - 1) = phrase

IsReady(buf) == \E ph \in ReadyPhrases : Includes(buf, ph)

\* line 129: versionOutput.match(/v(\d+\.\d+\.\d+)/), "" when there is no match.
MatchVersion(output) ==
  IF output = "nats-server: v2.10.7" THEN "2.10.7" ELSE ""

\* GetNatsServerVersion that resolves with nothing when the probe cannot be launched.
GetNatsServerVersion_ErrYieldsNull(po) ==
  IF po.err THEN "null"
  ELSE IF MatchVersion(po.output) # "" THEN MatchVersion(po.output)
  ELSE "unknown"

\* getNatsServerVersion, lines 122-138: what the probe's promise resolves with.
\* The exit code of the 'close' event is not looked at.
GetNatsServerVersion(po) ==
  IF po.err THEN "unknown"
  ELSE IF MatchVersion(po.output) # "" THEN MatchVersion(po.output)
  ELSE "unknown"

\* ---- max-memory-store values, lines 292-301 and 407-417
\* A string is the sequence of its characters. A byte count is a number in
\* base 1024, least significant digit first, without leading zeros (<<>> is
\* 0): 2 * 1024^3 is <<0, 0, 0, 2>>.
DecimalDigits == <<"0", "1", "2", "3", "4", "5", "6", "7", "8", "9">>
IsDigit(ch) == \E i \in 1..Len(DecimalDigits) : DecimalDigits[i] = ch
DigitVal(ch) == (CHOOSE i \in 1..Len(DecimalDigits) : DecimalDigits[i] = ch) - 1

\* toUpperCase on the letters of the units.
ToUpperCase(str) ==
  [i \in 1..Len(str) |->
     CASE str[i] = "g" -> "G" [] str[i] = "m" -> "M" [] str[i] = "k" -> "K"
       [] str[i] = "b" -> "B" [] OTHER -> str[i]]

\* parseInt on a sequence of decimal digits.
RECURSIVE ParseInt(_)
ParseInt(ds) ==
  IF ds = <<>> THEN 0
  ELSE 10 * ParseInt(SubSeq(ds, 1, Len(ds) - 1)) + DigitVal(ds[Len(ds)])

\* A natural number as a byte count.
RECURSIVE ToBytes(_)
ToBytes(n) == IF n = 0 THEN <<>> ELSE <<n % 1024>> \o ToBytes(n \div 1024)

\* bytes *= 1024
Times1024(bytes) == IF bytes = <<>> THEN <<>> ELSE <<0>> \o bytes

\* SizeMatch with GB taken as 1024^2.
SizeMatch_GBAsMB(str) ==
  LET k == CHOOSE n \in 0..Len(str) :
             /\ \A i \in 1..n : IsDigit(str[i])
             /\ n = Len(str) \/ ~IsDigit(str[n + 1])
      unit == ToUpperCase(SubSeq(str, k + 1, Len(str)))
      digits == ToBytes(ParseInt(SubSeq(str, 1, k)))
  IN IF k = 0 \/ unit \notin {<<>>, <<"G", "B">>, <<"M", "B">>, <<"K", "B">>, <<"B">>}
     THEN [ok |-> FALSE, bytes |-> <<>>]
     ELSE [ok |-> TRUE,
           bytes |-> CASE unit \in {<<"G", "B">>, <<"M", "B">>} -> Times1024(Times1024(digits))
                       [] unit = <<"K", "B">> -> Times1024(digits)
                       [] OTHER -> digits]

\* node.maxMemoryStore.match(/^(\d+)(GB|MB|KB|B)?$/i) and the conversion that
\* follows it, lines 293-301 and 409-417 (the same code in both modes).
SizeMatch(str) ==
  LET k == CHOOSE n \in 0..Len(str) :
             /\ \A i \in 1..n : IsDigit(str[i])
             /\ n = Len(str) \/ ~IsDigit(str[n + 1])
      unit == ToUpperCase(SubSeq(str, k + 1, Len(str)))
      digits == ToBytes(ParseInt(SubSeq(str, 1, k)))
  IN IF k = 0 \/ unit \notin {<<>>, <<"G", "B">>, <<"M", "B">>, <<"K", "B">>, <<"B">>}
     THEN [ok |-> FALSE, bytes |-> <<>>]
     ELSE [ok |-> TRUE,
           bytes |-> CASE unit = <<"G", "B">> -> Times1024(Times1024(Times1024(digits)))
                       [] unit = <<"M", "B">> -> Times1024(Times1024(digits))
                       [] unit = <<"K", "B">> -> Times1024(digits)
                       [] OTHER -> digits]

\* ---- the serverConfig object and the file generated from it
\* An object is the sequence of its entries, in insertion order; an entry has
\* a key, the typeof of its value ("null" for null) and the value: for an
\* object its entries, for an array the sequence of its items (objects).
Entry(key, type, val) == [key |-> key, type |-> type, val |-> val]
If(cond, entries) == IF cond THEN entries ELSE <<>>

\* LeafRemote that emits credentials: null whether or not a user is set, and
\* always a user entry.
LeafRemote_AlwaysUser(c) ==
  <<Entry("url", "string",
          IF c.leafRemoteUrl # "" THEN c.leafRemoteUrl ELSE "nats://localhost:4222")>>
    \o <<Entry("credentials", "null", ""), Entry("user", "string", c.leafRemoteUser)>>
    \o If(c.leafRemotePass # "", <<Entry("password", "string", c.leafRemotePass)>>)

\* lines 255-259: the one remote of leaf-node mode.
LeafRemote(c) ==
  <<Entry("url", "string",
          IF c.leafRemoteUrl # "" THEN c.leafRemoteUrl ELSE "nats://localhost:4222")>>
    \o If(c.leafRemoteUser # "",
          <<Entry("credentials", "null", ""), Entry("user", "string", c.leafRemoteUser)>>)
    \o If(c.leafRemotePass # "", <<Entry("password", "string", c.leafRemotePass)>>)

\* ServerConfig whose jetstream block depends on the JetStream switch alone.
ServerConfig_JetStreamOnlyIfEnabled(c) ==
  <<Entry("port", "number", ActualPort(c))>>
    \o If(EnableLeafNode(c),
          <<Entry("leafnodes", "object",
                  <<Entry("remotes", "array", <<LeafRemote(c)>>)>>)>>)
    \o If(c.serverName # "", <<Entry("server_name", "string", c.serverName)>>)
    \o If(EnableMqtt(c),
          <<Entry("mqtt", "object",
                  <<Entry("port", "number", ParseIntOr(c.mqttPort, DefaultMqttPort))>>)>>)
    \o If(EnableJetStream(c),
          <<Entry("jetstream", "object",
                  If(c.storeDir # "", <<Entry("store_dir", "string", c.storeDir)>>)
                    \o If(c.maxMemoryStore # <<>> /\ SizeMatch(c.maxMemoryStore).ok,
                          <<Entry("max_memory_store", "number",
                                  SizeMatch(c.maxMemoryStore).bytes)>>))>>)
    \o If(c.httpPort # "", <<Entry("http_port", "number", c.httpPort)>>)

\* lines 246-308: the serverConfig object of file mode.
NoConf == <<>>
ServerConfig(c) ==
  <<Entry("port", "number", ActualPort(c))>>
    \o If(EnableLeafNode(c),
          <<Entry("leafnodes", "object",
                  <<Entry("remotes", "array", <<LeafRemote(c)>>)>>)>>)
    \o If(c.serverName # "", <<Entry("server_name", "string", c.serverName)>>)
    \o If(EnableMqtt(c),
          <<Entry("mqtt", "object",
                  <<Entry("port", "number", ParseIntOr(c.mqttPort, DefaultMqttPort))>>)>>)
    \o If(EnableJetStream(c) \/ EnableMqtt(c),
          <<Entry("jetstream", "object",
                  If(c.storeDir # "", <<Entry("store_dir", "string", c.storeDir)>>)
                    \o If(c.maxMemoryStore # <<>> /\ SizeMatch(c.maxMemoryStore).ok,
                          <<Entry("max_memory_store", "number",
                                  SizeMatch(c.maxMemoryStore).bytes)>>))>>)
    \o If(c.httpPort # "", <<Entry("http_port", "number", c.httpPort)>>)

\* A line of the generated file: its indentation, its key, its form ("#" a
\* comment, "{" and "}" a block, "[" and "]" a list, "string" a quoted value,
\* "raw" an unquoted one) and its value.
Line(indent, key, form, val) ==
  [indent |-> indent, key |-> key, form |-> form, val |-> val]

\* generateNatsConfig's writeValue, lines 83-110, and its loops over entries.
RECURSIVE WriteValue(_, _, _, _), WriteEntries(_, _), WriteItems(_, _)
WriteValue(key, type, val, indent) ==
  CASE type = "object" ->
         <<Line(indent, key, "{", "")>> \o WriteEntries(val, indent + 1)
           \o <<Line(indent, "", "}", "")>>
    [] type = "array" ->
         <<Line(indent, key, "[", "")>> \o WriteItems(val, indent)
           \o <<Line(indent, "", "]", "")>>
    [] type = "string" -> <<Line(indent, key, "string", val)>>
    [] type \in {"boolean", "number"} -> <<Line(indent, key, "raw", val)>>
    [] OTHER -> <<>>

WriteEntries(entries, indent) ==
  IF entries = <<>> THEN <<>>
  ELSE WriteValue(entries[1].key, entries[1].type, entries[1].val, indent)
         \o WriteEntries(Tail(entries), indent)

WriteItems(items, indent) ==
  IF items = <<>> THEN <<>>
  ELSE <<Line(indent + 1, "", "{", "")>> \o WriteEntries(items[1], indent + 2)
         \o <<Line(indent + 1, "", "}", "")>> \o WriteItems(Tail(items), indent)

\* generateNatsConfig, lines 79-119: the content of the file.
GenerateNatsConfig(config) ==
  <<Line(0, "", "#", "Auto-generated NATS Server Configuration"),
    Line(0, "", "#", "Generated at")>> \o WriteEntries(config, 0)

\* lines 330, 335-422: the argument list of the broker, as (flag, value)
\* pairs; file is the generated config file. A port stands for its decimal
\* string.
Arg(flag, val) == [flag |-> flag, val |-> val]
SpawnArgs(c, file) ==
  IF NeedsConfigFile(c)
  THEN <<Arg("-c", file)>>
  ELSE <<Arg("-p", RequestedPort(c))>>
         \o (IF c.serverName # "" THEN <<Arg("-n", c.serverName)>> ELSE <<>>)
         \o (IF c.httpPort # "" THEN <<Arg("-m", c.httpPort)>> ELSE <<>>)
         \o (IF EnableJetStream(c)
             THEN <<Arg("-js", "")>>
                    \o (IF c.storeDir # "" THEN <<Arg("-sd", c.storeDir)>> ELSE <<>>)
                    \o (IF c.maxMemoryStore # <<>> /\ SizeMatch(c.maxMemoryStore).ok
                        THEN <<Arg("--js_max_memory_store",
                                   SizeMatch(c.maxMemoryStore).bytes)>>
                        ELSE <<>>)
             ELSE <<>>)

\* line 453, 650
NatsUrl(port) == IF port = NoPort THEN <<>> ELSE <<"nats://localhost:", port>>

\* ------------------------------------------------- the working state
\* The program state as one record, with the outputs of the handler that is
\* running: errs (node.error), warns (node.warn), sent (node.send), kills
\* (processes sent SIGTERM), rej (the error a pending start was rejected
\* with), spawned (the broker process spawned), bin and args (what it was
\* spawned with), conf and file (the serverConfig object compiled for it and
\* the content of the file written from it), probe (what the version probe
\* did).
NoProbe == [err |-> FALSE, output |-> "", code |-> 0]
NoErr == [msg |-> "", args |-> <<>>]

Cur ==
  [cfg |-> cfg, handle |-> handle, serverPort |-> serverPort, version |-> version,
   configFile |-> configFile, files |-> files, status |-> status,
   probing |-> probing, autoTimer |-> autoTimer, restartTimers |-> restartTimers,
   closed |-> closed, crashed |-> crashed, nprocs |-> nprocs, proc |-> proc,
   started |-> started, out |-> out, timer |-> timer, promise |-> promise,
   owed |-> owed,
   errs |-> <<>>, warns |-> <<>>, sent |-> <<>>, kills |-> {}, rej |-> NoErr,
   spawned |-> NoProc, bin |-> "", args |-> <<>>, conf |-> NoConf, file |-> <<>>,
   probe |-> NoProbe]

\* lines 68-76
SetStatus(s, st) == [s EXCEPT !.status = st]
NodeError(s, pre, e) == [s EXCEPT !.errs = Append(@, [pre |-> pre, err |-> e])]
NodeWarn(s, w) == [s EXCEPT !.warns = Append(@, w)]
NodeSend(s, m) == [s EXCEPT !.sent = Append(@, m)]

\* fs.unlinkSync(configFile) in try/catch, lines 522-528, 534-540, 556-562, 581-586:
\* deleting a file that is not there throws, and the catch warns.
UnlinkConfig(s) ==
  IF s.configFile = NoFile THEN s
  ELSE IF s.configFile \in s.files
       THEN [s EXCEPT !.files = @ \ {s.configFile}]
       ELSE NodeWarn(s, "Failed to delete temporary config file")

\* natsServerProcess.kill('SIGTERM'); natsServerProcess = null (lines 551-554, 590-595)
KillHeld(s) ==
  IF s.handle = NoProc THEN s
  ELSE [s EXCEPT !.proc[s.handle] = IF @ = "live" THEN "signalled" ELSE @,
                 !.kills = @ \cup {s.handle},
                 !.handle = NoProc]

\* startServer's catch (lines 609-612), which runs when the awaited start rejects.
StartServerCatch(s, e) ==
  SetStatus(NodeError(s, "Error while starting", e), "error")

\* reject(err) on the promise of process p: only a pending promise settles.
Reject(s, p, e) ==
  IF s.promise[p] = "pending"
  THEN StartServerCatch([s EXCEPT !.promise[p] = "rejected", !.rej = e], e)
  ELSE s

\* resolve() on the promise of process p.
Resolve(s, p) ==
  IF s.promise[p] = "pending" THEN [s EXCEPT !.promise[p] = "resolved"] ELSE s


\* ------------------------------------------------------------ handlers
\* checkStarted's startedPayload, lines 450-484. pid is read from the held
\* process (natsServerProcess.pid), whichever process printed the phrase.
StartedPayload(s) ==
  LET c == s.cfg IN
  [type |-> IF EnableLeafNode(c) THEN "leaf" ELSE "embedded",
   port |-> s.serverPort,
   url |-> NatsUrl(s.serverPort),
   pid |-> s.handle,
   version |-> s.version,
   jetstream |-> EnableJetStream(c) \/ EnableMqtt(c),
   mqtt |-> IF EnableMqtt(c)
            THEN [enabled |-> TRUE, port |-> ParseIntOr(c.mqttPort, DefaultMqttPort)]
            ELSE [enabled |-> FALSE, port |-> 0],
   binarySource |-> c.binarySource,
   binaryPath |-> ResolveBinary(c).bin,
   serverName |-> c.serverName,
   httpPort |-> c.httpPort,
   endpoints |-> IF c.httpPort = "" THEN {}
                 ELSE {"varz", "connz", "subsz", "healthz"}
                      \cup (IF EnableJetStream(c) THEN {"jsz"} ELSE {})]

\* CheckStarted without the test of the started flag.
CheckStarted_NoStartedGuard(s, p, data) ==
  LET s1 == [s EXCEPT !.out[p] = @ \o data] IN
  IF IsReady(s1.out[p])
  THEN LET s2 == SetStatus([s1 EXCEPT !.started[p] = TRUE,
                                      !.serverPort = ActualPort(s1.cfg)], "running")
       IN IF s2.handle = NoProc
          THEN [s2 EXCEPT !.crashed = TRUE]
          ELSE Resolve(NodeSend(s2, [topic |-> "server.started",
                                     payload |-> StartedPayload(s2)]), p)
  ELSE s1

\* CheckStarted that looks for the phrases in the chunk alone.
CheckStarted_ChunkAlone(s, p, data) ==
  LET s1 == [s EXCEPT !.out[p] = @ \o data] IN
  IF ~s1.started[p] /\ IsReady(data)
  THEN LET s2 == SetStatus([s1 EXCEPT !.started[p] = TRUE,
                                      !.serverPort = ActualPort(s1.cfg)], "running")
       IN IF s2.handle = NoProc
          THEN [s2 EXCEPT !.crashed = TRUE]
          ELSE Resolve(NodeSend(s2, [topic |-> "server.started",
                                     payload |-> StartedPayload(s2)]), p)
  ELSE s1

\* checkStarted, lines 438-492, for a chunk of process p. With no process
\* held, natsServerProcess.pid throws after the port and the status are set.
CheckStarted(s, p, data) ==
  LET s1 == [s EXCEPT !.out[p] = @ \o data] IN
  IF ~s1.started[p] /\ IsReady(s1.out[p])
  THEN LET s2 == SetStatus([s1 EXCEPT !.started[p] = TRUE,
                                      !.serverPort = ActualPort(s1.cfg)], "running")
       IN IF s2.handle = NoProc
          THEN [s2 EXCEPT !.crashed = TRUE]
          ELSE Resolve(NodeSend(s2, [topic |-> "server.started",
                                     payload |-> StartedPayload(s2)]), p)
  ELSE s1

\* OnError without natsServerProcess = null.
OnError_KeepsHandle(s, p, e) ==
  Reject(SetStatus(NodeError(s, "Failed to start embedded NATS server", e), "error"), p, e)

\* natsServerProcess.on('error'), lines 510-515.
OnError(s, p, e) ==
  LET s1 == SetStatus(NodeError(s, "Failed to start embedded NATS server", e), "error")
  IN Reject([s1 EXCEPT !.handle = NoProc], p, e)

\* OnExit that schedules another start when the process exits before readiness.
OnExit_RetriesStart(s, p, code, signal) ==
  LET s1 == IF ~s.started[p]
            THEN LET a == NodeError(s, "Embedded NATS server exited before starting",
                                    [msg |-> "exit", args |-> <<code, signal>>])
                     b == UnlinkConfig(SetStatus(a, "error"))
                     c == Reject(b, p, [msg |-> "Server exited with code", args |-> <<code>>])
                 IN [c EXCEPT !.restartTimers = @ + 1]
            ELSE UnlinkConfig(SetStatus(s, "stopped"))
  IN [s1 EXCEPT !.handle = NoProc, !.serverPort = NoPort]

\* natsServerProcess.on('exit'), lines 517-544.
OnExit(s, p, code, signal) ==
  LET s1 == IF ~s.started[p]
            THEN LET a == NodeError(s, "Embedded NATS server exited before starting",
                                    [msg |-> "exit", args |-> <<code, signal>>])
                     b == UnlinkConfig(SetStatus(a, "error"))
                 IN Reject(b, p, [msg |-> "Server exited with code", args |-> <<code>>])
            ELSE UnlinkConfig(SetStatus(s, "stopped"))
  IN [s1 EXCEPT !.handle = NoProc, !.serverPort = NoPort]

\* the startup timeout, lines 547-565.
OnTimeout(s, p) ==
  IF ~s.started[p]
  THEN LET e == [msg |-> "Server start timeout", args |-> <<>>]
           a == SetStatus(NodeError(s, "Embedded NATS server start timeout", NoErr), "error")
       IN Reject(UnlinkConfig(KillHeld(a)), p, e)
  ELSE s

\* stopServer without serverPort = null.
StopServer_KeepsPort(s) ==
  LET a == SetStatus(s, "stopped")
      b == [UnlinkConfig(a) EXCEPT !.configFile = NoFile]
      c == SetStatus(KillHeld(b), "stopped")
  IN NodeSend(c, [topic |-> "server.stopped", payload |-> [type |-> "undefined"]])

\* stopServer, lines 576-603. node.serverType is never assigned.
StopServer(s) ==
  LET a == SetStatus(s, "stopped")
      b == [UnlinkConfig(a) EXCEPT !.configFile = NoFile]
      c == KillHeld(b)
      d == SetStatus([c EXCEPT !.serverPort = NoPort], "stopped")
  IN NodeSend(d, [topic |-> "server.stopped", payload |-> [type |-> "undefined"]])

\* A throw inside startEmbeddedServer's try: the error is reported at the throw,
\* by the catch of startEmbeddedServer (lines 568-572) and by startServer's catch.
ThrowInStart(s, msg) ==
  LET e == [msg |-> msg, args |-> <<>>]
      a == SetStatus(NodeError(s, "", e), "error")
      b == SetStatus(NodeError(a, "Failed to start embedded server", e), "error")
  IN StartServerCatch(b, e)

\* StartServer without the validation of the leaf remote URL.
StartServer_NoLeafValidation(s) ==
  IF ~ResolveBinary(s.cfg).ok
  THEN ThrowInStart(s, ResolveBinary(s.cfg).msg)
  ELSE [s EXCEPT !.probing = @ + 1]

\* startServer up to the await of line 221: validation and binary resolution
\* (lines 143-218), then the version probe is spawned and the start suspends.
StartServer(s) ==
  IF EnableLeafNode(s.cfg) /\ s.cfg.leafRemoteUrl = ""
  THEN ThrowInStart(s, "Leaf Node mode requires a Remote NATS Server URL")
  ELSE IF ~ResolveBinary(s.cfg).ok
  THEN ThrowInStart(s, ResolveBinary(s.cfg).msg)
  ELSE [s EXCEPT !.probing = @ + 1]

\* Whether startServer gets as far as the version probe.
StartPasses(c) ==
  /\ ~(EnableLeafNode(c) /\ c.leafRemoteUrl = "")
  /\ ResolveBinary(c).ok

\* startEmbeddedServer from the await of line 221 to the end of the promise
\* executor (line 567): the version the probe po yields is stored, the MQTT prerequisites
\* are applied, the config file is written in file mode, the broker is spawned
\* as process p and its handlers and the timer are installed. When the OS
\* cannot launch the process (ok = FALSE), its 'error' event is emitted on the
\* next tick, before any other event.
ResumeStart(s, po, ok) ==
  LET p == s.nprocs + 1
      a == [s EXCEPT !.probing = @ - 1, !.version = GetNatsServerVersion(po),
                     !.probe = po]
      b == IF EnableMqtt(a.cfg) /\ ~EnableJetStream(a.cfg)
           THEN NodeWarn(a, "MQTT requires JetStream - enabling JetStream automatically")
           ELSE a
      c == IF EnableMqtt(b.cfg) /\ b.cfg.serverName = ""
           THEN [b EXCEPT !.cfg.serverName = "nats-embedded-<now>"]
           ELSE b
      d == IF NeedsConfigFile(c.cfg)
           THEN [c EXCEPT !.configFile = p, !.files = @ \cup {p},
                          !.conf = ServerConfig(c.cfg),
                          !.file = GenerateNatsConfig(ServerConfig(c.cfg))]
           ELSE c
      e == [SetStatus(d, "starting") EXCEPT
              !.handle = p, !.nprocs = p, !.spawned = p,
              !.bin = ResolveBinary(d.cfg).bin, !.args = SpawnArgs(d.cfg, p),
              !.proc[p] = IF ok THEN "live" ELSE "failed",
              !.started[p] = FALSE, !.out[p] = <<>>,
              !.promise[p] = "pending", !.timer[p] = TRUE,
              !.owed[p] = d.restartTimers + (IF d.autoTimer THEN 1 ELSE 0)]
  IN IF ok THEN e ELSE OnError(e, p, [msg |-> "spawn EAGAIN", args |-> <<>>])


\* ------------------------------------------------------------- commands
CmdNames == {"start", "stop", "restart", "status", "toggle"}

\* Input messages: msg.payload.command, msg.topic and msg.command ("" = absent).
Msg(pc, topic, command) == [payloadCommand |-> pc, topic |-> topic, command |-> command]
Msgs ==
  {Msg(c, "", "") : c \in CmdNames}
    \cup {Msg("", "start", ""), Msg("", "", "start"), Msg("stop", "start", ""),
          Msg("bogus", "", ""), Msg("", "", "")}

NoMsg == Msg("", "", "")

\* ExtractCommand that prefers the topic.
ExtractCommand_TopicFirst(msg) ==
  IF msg.topic # "" THEN msg.topic ELSE msg.payloadCommand

\* line 617: msg.payload?.command || msg.topic
ExtractCommand(msg) ==
  IF msg.payloadCommand # "" THEN msg.payloadCommand ELSE msg.topic

\* StatusPayload with running taken from the port.
StatusPayload_RunningFromPort(s) ==
  [running |-> s.serverPort # NoPort, type |-> "embedded", port |-> s.serverPort,
   url |-> NatsUrl(s.serverPort), version |-> s.version]

\* the 'status' reply, lines 644-653.
StatusPayload(s) ==
  [running |-> s.handle # NoProc, type |-> "embedded", port |-> s.serverPort,
   url |-> NatsUrl(s.serverPort), version |-> s.version]

\* setTimeout(() => startServer(), 1000), line 641.
ArmRestart(s) == [s EXCEPT !.restartTimers = @ + 1]

\* OnInput whose stop case does not test the handle.
OnInput_StopUnguarded(s, msg) ==
  LET command == ExtractCommand(msg) IN
  IF command = ""
  THEN NodeWarn(s, "No command specified")
  ELSE CASE command = "start" ->
              IF s.handle # NoProc THEN NodeWarn(s, "Server is already running")
              ELSE StartServer(s)
         [] command = "stop" -> StopServer(s)
         [] command = "restart" -> ArmRestart(StopServer(s))
         [] command = "status" ->
              NodeSend(s, [topic |-> "server.status", payload |-> StatusPayload(s)])
         [] command = "toggle" ->
              IF s.handle # NoProc THEN StopServer(s) ELSE StartServer(s)
         [] OTHER -> NodeWarn(s, "Unknown command")

\* OnInput whose toggle case tests the port instead of the handle.
OnInput_ToggleTestsPort(s, msg) ==
  LET command == ExtractCommand(msg) IN
  IF command = ""
  THEN NodeWarn(s, "No command specified")
  ELSE CASE command = "start" ->
              IF s.handle # NoProc THEN NodeWarn(s, "Server is already running")
              ELSE StartServer(s)
         [] command = "stop" ->
              IF s.handle = NoProc THEN NodeWarn(s, "Server is not running")
              ELSE StopServer(s)
         [] command = "restart" -> ArmRestart(StopServer(s))
         [] command = "status" ->
              NodeSend(s, [topic |-> "server.status", payload |-> StatusPayload(s)])
         [] command = "toggle" ->
              IF s.serverPort # NoPort THEN StopServer(s) ELSE StartServer(s)
         [] OTHER -> NodeWarn(s, "Unknown command")

\* the input handler, lines 616-666.
OnInput(s, msg) ==
  LET command == ExtractCommand(msg) IN
  IF command = ""
  THEN NodeWarn(s, "No command specified")
  ELSE CASE command = "start" ->
              IF s.handle # NoProc THEN NodeWarn(s, "Server is already running")
              ELSE StartServer(s)
         [] command = "stop" ->
              IF s.handle = NoProc THEN NodeWarn(s, "Server is not running")
              ELSE StopServer(s)
         [] command = "restart" -> ArmRestart(StopServer(s))
         [] command = "status" ->
              NodeSend(s, [topic |-> "server.status", payload |-> StatusPayload(s)])
         [] command = "toggle" ->
              IF s.handle # NoProc THEN StopServer(s) ELSE StartServer(s)
         [] OTHER -> NodeWarn(s, "Unknown command")

\* the close handler, lines 678-680.
OnClose(s) == StopServer([s EXCEPT !.closed = TRUE])

\* A 1 s timer fired: the processes spawned after it was set no longer wait for it.
TimerFired(s) ==
  [s EXCEPT !.owed = [q \in Procs |-> IF @[q] > 0 THEN @[q] - 1 ELSE 0]]

\* ------------------------------------------------- the stream publisher
\* nats-suite-stream-publisher.js, the update-subjects operation. A string is
\* the sequence of its characters; msg.subjects is absent, a string or an
\* array.
SubjectChars == {"a", ",", " "}
SubjectStrings == UNION {[1..n -> SubjectChars] : n \in 0..MaxSubjLen}
Ops == 1..MaxOps

Absent == [kind |-> "absent", val |-> <<>>]
SubjectInputs ==
  {Absent, [kind |-> "array", val |-> <<"a">>]}
    \cup {[kind |-> "string", val |-> str] : str \in SubjectStrings}

\* msg.subjects as a condition: undefined and the empty string are falsy.
Truthy(subjects) == subjects.kind # "absent" /\ subjects.val # <<>>

\* String.prototype.split(','), line 437.
RECURSIVE Split(_)
Split(str) ==
  IF \E k \in 1..Len(str) : str[k] = ","
  THEN LET k == CHOOSE j \in 1..Len(str) :
                  str[j] = "," /\ \A h \in 1..(j - 1) : str[h] # ","
       IN <<SubSeq(str, 1, k - 1)>> \o Split(SubSeq(str, k + 1, Len(str)))
  ELSE <<str>>

\* String.prototype.trim(), line 437.
RECURSIVE Trim(_)
Trim(str) ==
  IF str = <<>> THEN str
  ELSE IF Head(str) = " " THEN Trim(Tail(str))
  ELSE IF str[Len(str)] = " " THEN Trim(SubSeq(str, 1, Len(str) - 1))
  ELSE str

\* msg.subjects.split(',').map(s => s.trim())
SplitTrim(str) == [i \in 1..Len(Split(str)) |-> Trim(Split(str)[i])]

\* The stream configurations the server may hold when the operation begins.
StreamConfig(subjects, retention, maxMsgs) ==
  [name |-> "ORDERS", subjects |-> subjects, retention |-> retention,
   max_msgs |-> maxMsgs]
StreamConfigs ==
  {StreamConfig(sj, r, m) : sj \in {<<<<"a">>>>, <<<<"b">>, <<"c">>>>},
                            r \in {"limits", "workqueue"}, m \in {-1, 100}}

\* updatedConfig built from the defaults of a new stream and the subjects.
UpdatedConfig_FromDefaults(currentStream, subjects) ==
  [name |-> currentStream.name,
   subjects |-> IF Truthy(subjects) THEN SplitTrim(subjects.val)
                ELSE currentStream.subjects,
   retention |-> "limits", max_msgs |-> -1]

\* updatedConfig, lines 434-439: the spread of currentStream.config with the
\* subjects replaced. An array has no split: the caller catches the TypeError.
UpdatedConfig(currentStream, subjects) ==
  [currentStream EXCEPT
     !.subjects = IF Truthy(subjects) THEN SplitTrim(subjects.val) ELSE @]

Throws(subjects) == Truthy(subjects) /\ subjects.kind = "array"

NoOp == [pc |-> "idle", subjects |-> Absent, updatedConfig |-> <<>>]
NoPubLast ==
  [op |-> "init", i |-> 0, subjects |-> Absent, read |-> <<>>, update |-> <<>>,
   errs |-> <<>>, sent |-> <<>>]
NoPub == [stream |-> StreamConfig(<<>>, "limits", -1),
          ops |-> [i \in Ops |-> NoOp], last |-> NoPubLast]

\* The variables of the server manager, which the publisher leaves alone.
PublisherVars ==
  <<cfg, disk, handle, serverPort, version, configFile, files, status, probing,
    autoTimer, restartTimers, closed, crashed, nprocs, proc, started, out, timer,
    promise, owed, failedSince, svc, last>>

\* the catch of performStreamOperation, lines 515-519.
OperationFailed(i, subjects, err) ==
  [pub EXCEPT !.ops[i].pc = "done",
              !.last = [NoPubLast EXCEPT !.op = "failed", !.i = i,
                                         !.subjects = subjects,
                                         !.errs = <<"Stream operation failed">>,
                                         !.sent = <<[error |-> err]>>]]

\* performStreamOperation with operation update-subjects, lines 157-170 and
\* 431-433: after the connection and the manager are awaited, the stream's
\* info is requested.
PerformStreamOperation(i, subjects) ==
  /\ pub.ops[i].pc = "idle"
  /\ \A j \in Ops : j < i => pub.ops[j].pc # "idle"
  /\ pub' = [pub EXCEPT !.ops[i] = [NoOp EXCEPT !.pc = "info", !.subjects = subjects],
                        !.last = [NoPubLast EXCEPT !.op = "input", !.i = i,
                                                   !.subjects = subjects]]
  /\ UNCHANGED PublisherVars

\* jsm.streams.info settles, lines 433-441: the configuration is built from
\* the one just read and passed to jsm.streams.update.
InfoSettles(i, ok) ==
  /\ pub.ops[i].pc = "info"
  /\ LET subjects == pub.ops[i].subjects IN
     pub' = IF ~ok THEN OperationFailed(i, subjects, "stream not found")
            ELSE IF Throws(subjects)
            THEN OperationFailed(i, subjects, "msg.subjects.split is not a function")
            ELSE LET updatedConfig == UpdatedConfig(pub.stream, subjects) IN
                 [pub EXCEPT !.ops[i].pc = "update",
                             !.ops[i].updatedConfig = <<updatedConfig>>,
                             !.last = [NoPubLast EXCEPT
                                         !.op = "update", !.i = i,
                                         !.subjects = subjects,
                                         !.read = <<pub.stream>>,
                                         !.update = <<updatedConfig>>]]
  /\ UNCHANGED PublisherVars

\* jsm.streams.update settles, lines 441-451: the server has replaced the
\* stream's configuration, and the reply is sent.
UpdateSettles(i, ok) ==
  /\ pub.ops[i].pc = "update"
  /\ LET subjects == pub.ops[i].subjects
         updatedConfig == pub.ops[i].updatedConfig[1] IN
     pub' = IF ~ok THEN OperationFailed(i, subjects, "update failed")
            ELSE [pub EXCEPT !.stream = updatedConfig,
                             !.ops[i].pc = "done",
                             !.last = [NoPubLast EXCEPT
                                         !.op = "updated", !.i = i,
                                         !.subjects = subjects,
                                         !.sent = <<[operation |-> "update-subjects",
                                                     stream |-> updatedConfig.name,
                                                     subjects |-> updatedConfig.subjects,
                                                     success |-> TRUE]>>]]
  /\ UNCHANGED PublisherVars

\* ----------------------------------------------------- the service node
\* The NATS service node (nats-suite-service) in mode 'service': startService,
\* stopService and what triggers them. A service is the number of the
\* nc.services.add call that created it; NoService is null.
NoService == 0
Starts == 1..MaxStarts

NoSvcLast == [op |-> "init", k |-> 0, warns |-> <<>>, errs |-> <<>>, sent |-> <<>>]
NoSvc ==
  [autoStart |-> FALSE, connectionStatus |-> "disconnected", timer |-> FALSE,
   isServiceRunning |-> FALSE, service |-> NoService, registered |-> {},
   nstarts |-> 0, nservices |-> 0, flips |-> 0,
   calls |-> [k \in Starts |-> [pc |-> "idle", reply |-> FALSE]],
   stopping |-> {}, status |-> "none", last |-> NoSvcLast]

\* The variables of the other nodes, which the service node leaves alone.
ServiceVars ==
  <<cfg, disk, handle, serverPort, version, configFile, files, status, probing,
    autoTimer, restartTimers, closed, crashed, nprocs, proc, started, out, timer,
    promise, owed, failedSince, pub, last>>

SvcWarn(s, w) == [s EXCEPT !.last.warns = Append(@, w)]
SvcError(s, e) == [s EXCEPT !.last.errs = Append(@, e)]

\* the reply of the input handler once the awaited call has settled.
SvcReply(s, operation) ==
  [s EXCEPT !.last.sent = Append(@, [operation |-> operation, success |-> TRUE,
                                    running |-> s.isServiceRunning])]

\* startService up to its first await (the guard and getConnection); reply
\* tells whether the input handler awaits the call.
StartService(s, reply) ==
  IF s.isServiceRunning
  THEN LET a == SvcWarn(s, "[SERVICE] Service already running")
       IN IF reply THEN SvcReply(a, "start") ELSE a
  ELSE LET k == s.nstarts + 1 IN
       [s EXCEPT !.nstarts = k,
                 !.calls[k] = [pc |-> "connection", reply |-> reply], !.last.k = k]

\* the catch of startService, and the end of the call.
StartFailed(s, k) ==
  LET a == [SvcError(s, "[SERVICE] Failed to start service") EXCEPT
              !.status = "start failed", !.calls[k].pc = "done"]
  IN IF s.calls[k].reply THEN SvcReply(a, "start") ELSE a

\* stopService up to its await of service.stop().
StopService(s) ==
  IF ~s.isServiceRunning \/ s.service = NoService THEN s
  ELSE [s EXCEPT !.stopping = @ \cup {s.service}]

Step(s, op) == [s EXCEPT !.last = [NoSvcLast EXCEPT !.op = op]]

\* the status listener, 'connected'.
SvcConnected ==
  /\ svc.connectionStatus = "disconnected" /\ svc.flips < MaxFlips
  /\ svc.autoStart => svc.nstarts < MaxStarts
  /\ LET a == [Step(svc, "connected") EXCEPT !.connectionStatus = "connected",
                                             !.flips = @ + 1]
     IN svc' = IF a.autoStart THEN StartService(a, FALSE) ELSE a
  /\ UNCHANGED ServiceVars

\* the status listener, 'disconnected'.
SvcDisconnected ==
  /\ svc.connectionStatus = "connected" /\ svc.flips < MaxFlips
  /\ LET a == [Step(svc, "disconnected") EXCEPT !.connectionStatus = "disconnected",
                                                !.flips = @ + 1,
                                                !.status = "disconnected"]
     IN svc' = IF a.service # NoService THEN StopService(a) ELSE a
  /\ UNCHANGED ServiceVars

\* the auto-start timer of 500 ms.
SvcAutoStart ==
  /\ svc.timer /\ svc.nstarts < MaxStarts
  /\ LET a == [Step(svc, "autoStart") EXCEPT !.timer = FALSE]
     IN svc' = IF a.connectionStatus = "connected" THEN StartService(a, FALSE) ELSE a
  /\ UNCHANGED ServiceVars

\* the input handler, operations start and stop. The reply to stop is sent
\* when service.stop() has settled, or at once when there is nothing to stop.
SvcInput(operation) ==
  /\ operation = "start" => svc.nstarts < MaxStarts
  /\ LET a == Step(svc, "input")
     IN svc' = IF operation = "start" THEN StartService(a, TRUE)
               ELSE LET b == StopService(a)
                    IN IF b.stopping = a.stopping THEN SvcReply(b, "stop") ELSE b
  /\ UNCHANGED ServiceVars

\* await getConnection() settles: the service is configured and
\* nc.services.add is called.
ConnectionSettles(k, ok) ==
  /\ svc.calls[k].pc = "connection"
  /\ LET a == [Step(svc, "connection") EXCEPT !.last.k = k]
     IN svc' = IF ok THEN [a EXCEPT !.calls[k].pc = "add"] ELSE StartFailed(a, k)
  /\ UNCHANGED ServiceVars

\* await nc.services.add() settles: the service is registered on the
\* connection, kept in service, and its endpoint is added.
AddSettles(k, ok) ==
  /\ svc.calls[k].pc = "add"
  /\ LET a == [Step(svc, "add") EXCEPT !.last.k = k]
         id == a.nservices + 1
     IN svc' = IF ok
               THEN [a EXCEPT !.nservices = id, !.registered = @ \cup {id},
                              !.service = id, !.isServiceRunning = TRUE,
                              !.calls[k].pc = "endpoint"]
               ELSE StartFailed(a, k)
  /\ UNCHANGED ServiceVars

\* await service.addEndpoint() settles.
EndpointSettles(k, ok) ==
  /\ svc.calls[k].pc = "endpoint"
  /\ LET a == [Step(svc, "endpoint") EXCEPT !.last.k = k]
     IN svc' = IF ok
               THEN LET b == [a EXCEPT !.status = "running", !.calls[k].pc = "done"]
                    IN IF a.calls[k].reply THEN SvcReply(b, "start") ELSE b
               ELSE StartFailed(a, k)
  /\ UNCHANGED ServiceVars

\* await service.stop() settles for service id.
StopSettles(id, ok) ==
  /\ id \in svc.stopping
  /\ LET a == [Step(svc, "stopped") EXCEPT !.stopping = @ \ {id}]
     IN svc' = IF ok
               THEN [a EXCEPT !.registered = @ \ {id}, !.isServiceRunning = FALSE,
                              !.service = NoService, !.status = "stopped"]
               ELSE SvcError(a, "[SERVICE] Failed to stop service")
  /\ UNCHANGED ServiceVars

\* ------------------------------------------------------------- actions
\* The new state is the handler's result; last records what the handler did.
Commit(t, op, p, msg, ex) ==
  /\ cfg' = t.cfg /\ handle' = t.handle /\ serverPort' = t.serverPort
  /\ version' = t.version /\ configFile' = t.configFile /\ files' = t.files
  /\ status' = t.status /\ probing' = t.probing /\ autoTimer' = t.autoTimer
  /\ restartTimers' = t.restartTimers /\ closed' = t.closed /\ crashed' = t.crashed
  /\ nprocs' = t.nprocs /\ proc' = t.proc /\ started' = t.started /\ out' = t.out
  /\ timer' = t.timer /\ promise' = t.promise /\ owed' = t.owed
  /\ last' = [op |-> op, p |-> p, msg |-> msg, cmd |-> ExtractCommand(msg),
              exit |-> ex,
              held |-> handle,
              pst |-> IF p \in Procs THEN proc[p] ELSE "none",
              pstarted |-> IF p \in Procs THEN started[p] ELSE FALSE,
              ppromise |-> IF p \in Procs THEN promise[p] ELSE "none",
              errs |-> t.errs, warns |-> t.warns, sent |-> t.sent,
              kills |-> t.kills, rej |-> t.rej, spawned |-> t.spawned,
              bin |-> t.bin, args |-> t.args, conf |-> t.conf, file |-> t.file,
              probe |-> t.probe]
  /\ failedSince' =
       IF \E i \in 1..Len(t.errs) : t.errs[i].pre = "Error while starting" THEN TRUE
       ELSE IF op = "input" /\ ExtractCommand(msg) \in {"start", "restart", "toggle"}
       THEN FALSE
       ELSE failedSince
  /\ UNCHANGED <<disk, pub, svc>>

NoExit == <<"", "">>

\* Starts begun and not yet spawned, plus processes spawned: bounded by MaxProcs.
Room ==
  nprocs + probing + restartTimers + (IF autoTimer THEN 1 ELSE 0) < MaxProcs

\* Whether the command would begin a new start (or arm the restart timer).
BeginsStart(msg) ==
  LET command == ExtractCommand(msg) IN
  \/ command = "restart"
  \/ command \in {"start", "toggle"} /\ handle = NoProc /\ StartPasses(cfg)

Input(msg) ==
  /\ ~closed /\ ~crashed
  /\ BeginsStart(msg) => Room
  /\ Commit(OnInput(Cur, msg), "input", NoProc, msg, NoExit)

\* the auto-start timer, lines 669-672.
AutoStart ==
  /\ autoTimer /\ ~crashed
  /\ Commit(StartServer(TimerFired([Cur EXCEPT !.autoTimer = FALSE])),
            "autoStart", NoProc, NoMsg, NoExit)

\* the delayed start of restart, line 641: a 1 s timer, so it fires after the
\* auto-start timer, which was set before it.
RestartTimer ==
  /\ restartTimers > 0 /\ ~autoTimer /\ ~crashed
  /\ Commit(StartServer(TimerFired([Cur EXCEPT !.restartTimers = @ - 1])),
            "restartTimer", NoProc, NoMsg, NoExit)

\* the version probe of a suspended start settles; the start resumes and spawns.
ProbeDone(po, ok) ==
  /\ probing > 0 /\ ~crashed
  /\ Commit(ResumeStart(Cur, po, ok), "probeDone", nprocs + 1, NoMsg, NoExit)

\* Chunks delivered so far, over all processes.
TotalOut ==
  LET Sum[k \in 0..MaxProcs] == IF k = 0 THEN 0 ELSE Len(out[k]) + Sum[k - 1]
  IN Sum[MaxProcs]

\* a chunk on stdout or stderr of process p (its pipes outlive its 'exit' event).
Data(p, tok) ==
  /\ ~crashed
  /\ proc[p] \in {"live", "signalled", "exited"}
  /\ TotalOut < MaxOut
  /\ Commit(CheckStarted(Cur, p, <<tok>>), "data", p, NoMsg, NoExit)

\* process p ends: its 'exit' event.
Exit(p, oc) ==
  /\ ~crashed
  /\ proc[p] \in {"live", "signalled"}
  /\ Commit(OnExit([Cur EXCEPT !.proc[p] = "exited"], p, oc[1], oc[2]),
            "exit", p, NoMsg, oc)

\* the 10 s startup timer of process p fires: after every timer set before it.
Timeout(p) ==
  /\ ~crashed
  /\ timer[p] /\ owed[p] = 0
  /\ \A q \in Procs : q < p => ~timer[q]
  /\ Commit(OnTimeout([Cur EXCEPT !.timer[p] = FALSE], p), "timeout", p, NoMsg, NoExit)

Close ==
  /\ ~closed /\ ~crashed
  /\ Commit(OnClose(Cur), "close", NoProc, NoMsg, NoExit)

\* The temporary directory loses a generated config file behind the node's
\* back: the next fs.unlinkSync of that file throws.
FileRemoved(f) ==
  /\ ~crashed
  /\ f \in files
  /\ Commit([Cur EXCEPT !.files = @ \ {f}], "fileRemoved", NoProc, NoMsg, NoExit)

\* The state after construction, but for the configuration and the disk.
Constructed ==
  /\ handle = NoProc /\ serverPort = NoPort /\ version = "null"
  /\ configFile = NoFile /\ files = {}
  /\ status = IF cfg.autoStart THEN "none" ELSE "stopped"
  /\ probing = 0 /\ autoTimer = cfg.autoStart /\ restartTimers = 0
  /\ closed = FALSE /\ crashed = FALSE /\ nprocs = 0
  /\ proc = [p \in Procs |-> "none"]
  /\ started = [p \in Procs |-> FALSE]
  /\ out = [p \in Procs |-> <<>>]
  /\ timer = [p \in Procs |-> FALSE]
  /\ promise = [p \in Procs |-> "none"]
  /\ owed = [p \in Procs |-> 0]
  /\ failedSince = FALSE
  /\ last = [op |-> "init", p |-> NoProc, msg |-> NoMsg, cmd |-> "", exit |-> NoExit,
             held |-> NoProc, pst |-> "none", pstarted |-> FALSE,
             ppromise |-> "none", errs |-> <<>>, warns |-> <<>>, sent |-> <<>>,
             kills |-> {}, rej |-> NoErr, spawned |-> NoProc,
             bin |-> "", args |-> <<>>, conf |-> NoConf, file |-> <<>>,
             probe |-> NoProbe]

Init ==
  /\ cfg \in {Construct(c) : c \in Configs}
  /\ disk = ExistingPaths
  /\ Constructed
  /\ pub = NoPub
  /\ svc = NoSvc

Next ==
  \/ \E msg \in Msgs : Input(msg)
  \/ AutoStart
  \/ RestartTimer
  \/ \E po \in ProbeOutcomes, ok \in BOOLEAN : ProbeDone(po, ok)
  \/ \E p \in Procs, tok \in Tokens : Data(p, tok)
  \/ \E p \in Procs, oc \in ExitOutcomes : Exit(p, oc)
  \/ \E p \in Procs : Timeout(p)
  \/ Close
  \/ \E f \in Procs : FileRemoved(f)

Spec == Init /\ [][Next]_vars

\* The lifecycle with the scheduling the runtime guarantees: a timer that is
\* set fires (the 1 s auto-start and restart timers, the 10 s startup timer).
\* What the child processes do is not constrained: the version probe may
\* never exit, the broker may stay silent and alive.
LiveSpec ==
  /\ Spec
  /\ WF_vars(AutoStart)
  /\ WF_vars(RestartTimer)
  /\ \A p \in Procs : WF_vars(Timeout(p))

\* One start on its own, from the command to readiness, under every
\* combination of the options that shape the argument list, the config file
\* and the server.started payload, and under every max-memory-store value of
\* up to MaxSizeLen characters in argument mode and in file mode.
SizeChars == {"1", "2", "G", "M", "K", "B", "g", "b"}
SizeStrings == UNION {[1..n -> SizeChars] : n \in 0..MaxSizeLen}

OptionConfigs ==
  {[BaseConfig EXCEPT !.enableMqtt = m, !.enableJetStream = j,
                      !.enableLeafNodeMode = l,
                      !.leafRemoteUrl = IF l THEN "nats://hub:7422" ELSE "",
                      !.serverName = n, !.httpPort = h,
                      !.leafRemoteUser = u, !.leafRemotePass = pw] :
     m \in BOOLEAN, j \in BOOLEAN, l \in BOOLEAN, n \in {"", "broker-1"},
     h \in {"", "8222"}, u \in {"", "leaf"}, pw \in {"", "secret"}}

SizeConfigs ==
  {[BaseConfig EXCEPT !.enableJetStream = TRUE, !.enableMqtt = m,
                      !.maxMemoryStore = str] :
     m \in BOOLEAN, str \in SizeStrings}

CompileInit ==
  /\ cfg \in {Construct(c) : c \in OptionConfigs \cup SizeConfigs}
  /\ disk = ExistingPaths
  /\ Constructed
  /\ pub = NoPub
  /\ svc = NoSvc

CompileNext ==
  \/ Input(Msg("start", "", ""))
  \/ ProbeDone([err |-> FALSE, output |-> "nats-server: v2.10.7", code |-> 0], TRUE)
  \/ \E p \in Procs : Data(p, "L")

CompileSpec == CompileInit /\ [][CompileNext]_vars

\* -------------------------------------------------- the binary resolver
\* The resolver of lines 158-218 on its own: every disk over the install
\* locations and a custom path, every binary source; the resolver is called
\* up to MaxCalls times on the same disk.
ResolveDisks ==
  SUBSET ({PossibleBinPaths[k] : k \in 1..(Len(PossibleBinPaths) - 1)}
            \cup {"/opt/nats-server"})

ResolveConfigs ==
  {[BaseConfig EXCEPT !.binarySource = b, !.customBinaryPath = cp] :
     b \in {"", "auto", "system", "custom", "npm"}, cp \in {"", "/opt/nats-server"}}

ResolveInit ==
  /\ cfg \in {Construct(c) : c \in ResolveConfigs}
  /\ disk \in ResolveDisks
  /\ Constructed
  /\ pub = NoPub
  /\ svc = NoSvc

Calls == IF last.op = "resolve" THEN last.n ELSE 0

\* one run of the switch of lines 164-218; last keeps its result and the
\* result of the call before.
ResolveCall ==
  /\ Calls < MaxCalls
  /\ last' = [op |-> "resolve", n |-> Calls + 1, res |-> ResolveBinary(cfg),
              prev |-> IF last.op = "resolve" THEN <<last.res>> ELSE <<>>]
  /\ UNCHANGED <<cfg, disk, handle, serverPort, version, configFile, files, status,
                 probing, autoTimer, restartTimers, closed, crashed, nprocs, proc,
                 started, out, timer, promise, owed, failedSince, pub, svc>>

ResolveNext == ResolveCall

ResolveSpec == ResolveInit /\ [][ResolveNext]_vars


\* ------------------------------------------- the stream publisher alone
\* Up to MaxOps update-subjects operations of one publisher node, which may
\* overlap at their awaits, on a stream of any of the configurations.
PublisherInit ==
  /\ cfg = Construct(BaseConfig)
  /\ disk = ExistingPaths
  /\ Constructed
  /\ pub \in {[NoPub EXCEPT !.stream = c] : c \in StreamConfigs}
  /\ svc = NoSvc

PublisherNext ==
  \/ \E i \in Ops, subjects \in SubjectInputs : PerformStreamOperation(i, subjects)
  \/ \E i \in Ops, ok \in BOOLEAN : InfoSettles(i, ok)
  \/ \E i \in Ops, ok \in BOOLEAN : UpdateSettles(i, ok)

PublisherSpec == PublisherInit /\ [][PublisherNext]_vars

\* ------------------------------------------------ the service node alone
\* One service node in mode 'service', with or without autoStart, on a
\* connection that is up or down at construction: up to MaxStarts calls of
\* startService that get past its guard, and MaxFlips changes of the connection.
ServiceInit ==
  /\ cfg = Construct(BaseConfig)
  /\ disk = ExistingPaths
  /\ Constructed
  /\ pub = NoPub
  /\ svc \in {[NoSvc EXCEPT !.autoStart = a, !.timer = a, !.connectionStatus = c,
                            !.status = IF a THEN "none" ELSE "ready"] :
                a \in BOOLEAN, c \in {"connected", "disconnected"}}

ServiceNext ==
  \/ SvcConnected
  \/ SvcDisconnected
  \/ SvcAutoStart
  \/ \E operation \in {"start", "stop"} : SvcInput(operation)
  \/ \E k \in Starts, ok \in BOOLEAN : ConnectionSettles(k, ok)
  \/ \E k \in Starts, ok \in BOOLEAN : AddSettles(k, ok)
  \/ \E k \in Starts, ok \in BOOLEAN : EndpointSettles(k, ok)
  \/ \E id \in Starts, ok \in BOOLEAN : StopSettles(id, ok)

ServiceSpec == ServiceInit /\ [][ServiceNext]_vars

\* ---------------------------------------------------------------- claims
\* A start is in progress: suspended in the version probe, or a process is held.
StartInProgress == probing > 0 \/ handle # NoProc

\* Whether error e names x (its message is built from args).
Carries(e, x) == \E i \in 1..Len(e.args) : e.args[i] = x

\* The port the configuration asks for: the leaf port in leaf-node mode, the
\* client port otherwise.
ConfiguredPort ==
  IF cfg.enableLeafNodeMode THEN cfg.leafPort ELSE cfg.port

\* C1: a start command received while an earlier start is in progress (version
\* probe pending, or a process held) only warns: it begins no further start and
\* leaves the process handle, port, version and config-file path unchanged.
C1_StartWhileStartingOnlyWarns ==
  [][ (last'.op = "input" /\ last'.cmd = "start" /\ StartInProgress)
        => /\ last'.warns # <<>>
           /\ probing' = probing
           /\ UNCHANGED <<handle, serverPort, version, configFile, nprocs>> ]_vars

\* C2: no broker process is spawned while a handle from an earlier spawn is
\* held, and at most one broker process that has not been sent a termination
\* signal exists.
C2_AtMostOneLiveProcess ==
  /\ (last.spawned # NoProc /\ proc[last.spawned] = "live") => last.held = NoProc
  /\ Cardinality({p \in Procs : proc[p] = "live"}) <= 1

\* C3: no generated config file outlives the process it was generated for: once
\* the process has exited or failed to launch, its file is gone from disk.
C3_NoConfigFileOutlivesProcess ==
  \A p \in Procs : proc[p] \in {"exited", "failed"} => p \notin files

\* C4: once a start attempt is settled (by readiness, by exit or error, or by
\* the timeout), the other sources change neither the runtime state nor the
\* status indicator and report or emit nothing. (The exit of a process that
\* was running is the Running -> Stopped transition and is not counted.)
C4_FirstOutcomeWins ==
  [][ ( /\ last'.op \in {"data", "exit", "timeout"}
        /\ promise[last'.p] \in {"resolved", "rejected"}
        /\ ~(last'.op = "exit" /\ started[last'.p]) )
        => /\ UNCHANGED <<handle, serverPort, version, configFile, files, status>>
           /\ last'.errs = <<>>
           /\ last'.sent = <<>> ]_vars

\* C5: when the startup timer of a process fires and the process has neither
\* become ready nor exited, the process has been sent a termination signal, the
\* handle is cleared, its config file is deleted, the start is rejected with
\* the timeout error and the status is error.
C5_TimeoutKillsAndCleans ==
  (last.op = "timeout" /\ ~last.pstarted /\ last.pst \in {"live", "signalled"})
    => /\ proc[last.p] = "signalled"
       /\ handle = NoProc
       /\ last.p \notin files
       /\ last.rej.msg = "Server start timeout"
       /\ status = "error"

\* C6: when a process exits before readiness, the pending start is rejected
\* with an error that carries the exit code or, for a death by signal, the
\* signal; handle and port are cleared and the status is error.
C6_ExitBeforeReadyCarriesCodeOrSignal ==
  (last.op = "exit" /\ ~last.pstarted /\ last.ppromise = "pending")
    => /\ promise[last.p] = "rejected"
       /\ Carries(last.rej, IF last.exit[2] # "null" THEN last.exit[2] ELSE last.exit[1])
       /\ handle = NoProc /\ serverPort = NoPort
       /\ status = "error"

\* C7: after the 'error' event of a broker process that the OS could not
\* launch, the status is error, the handle is cleared and the pending start is
\* rejected with the OS error.
C7_SpawnErrorToError ==
  (last.op = "probeDone" /\ proc[last.p] = "failed")
    => /\ status = "error"
       /\ handle = NoProc
       /\ promise[last.p] = "rejected"
       /\ last.rej = [msg |-> "spawn EAGAIN", args |-> <<>>]

C7_Witness ==
  /\ last.op = "probeDone" /\ proc[last.p] = "failed"
  /\ last.ppromise = "none" /\ promise[last.p] = "rejected"

\* C8: a stop command accepted while the held process is running signals that
\* process, clears handle and port, deletes the generated config file, emits
\* exactly one server.stopped and leaves the status stopped.
C8_StopWhileRunning ==
  (last.op = "input" /\ last.cmd = "stop" /\ last.held # NoProc /\ started[last.held])
    => /\ last.kills = {last.held}
       /\ proc[last.held] = "signalled"
       /\ handle = NoProc /\ serverPort = NoPort
       /\ configFile = NoFile /\ last.held \notin files
       /\ Len(last.sent) = 1 /\ last.sent[1].topic = "server.stopped"
       /\ status = "stopped"

C8_Witness ==
  /\ last.op = "input" /\ last.cmd = "stop"
  /\ last.held # NoProc /\ started[last.held]
  /\ NeedsConfigFile(cfg) /\ last.warns = <<>>

\* C9: when a process that was running exits without having been sent a
\* termination signal, handle and port are cleared, its config file is
\* deleted, the status is stopped, and a status query then reports
\* running = false with a null port and URL.
C9_UnexpectedExitWhileRunning ==
  (last.op = "exit" /\ last.pstarted /\ last.pst = "live")
    => /\ handle = NoProc /\ serverPort = NoPort
       /\ last.p \notin files
       /\ status = "stopped"
       /\ ~StatusPayload(Cur).running
       /\ StatusPayload(Cur).port = NoPort
       /\ StatusPayload(Cur).url = <<>>

\* C10: when the held process first prints a readiness phrase, the status
\* becomes running, the pending start resolves, and exactly one server.started
\* is emitted whose port is the configured leaf port in leaf-node mode and the
\* configured client port otherwise; serverPort holds the same port.
C10_ReadinessOfHeldProcess ==
  (last.op = "data" /\ last.held = last.p /\ ~last.pstarted /\ started[last.p])
    => /\ status = "running" /\ handle = last.p
       /\ last.ppromise = "pending" /\ promise[last.p] = "resolved"
       /\ Len(last.sent) = 1 /\ last.sent[1].topic = "server.started"
       /\ last.sent[1].payload.port = ConfiguredPort
       /\ serverPort = ConfiguredPort

C10_Witness ==
  /\ last.op = "data" /\ last.held = last.p /\ ~last.pstarted /\ started[last.p]
  /\ cfg.enableLeafNodeMode /\ serverPort = DefaultLeafPort

\* C11: for each spawned process readiness fires at most once. The started
\* flag of a process is never reset; a chunk of a process whose flag is set
\* emits nothing and leaves port, status, handle and promise as they are,
\* whatever it contains; a chunk of a process whose flag is not set emits at
\* most one server.started, and only when it sets the flag.
C11_ReadinessAtMostOnce ==
  [][ /\ \A p \in Procs : started[p] => started'[p]
      /\ (last'.op = "data" /\ started[last'.p])
           => /\ last'.sent = <<>>
              /\ UNCHANGED <<serverPort, status, handle, promise, started>>
      /\ (last'.op = "data" /\ ~started[last'.p])
           => /\ Len(last'.sent) <= 1
              /\ last'.sent # <<>>
                   => /\ last'.sent[1].topic = "server.started"
                      /\ started'[last'.p] ]_vars

\* A second readiness phrase arrives from a process that is already running.
C11_Witness ==
  /\ last.op = "data" /\ last.pstarted
  /\ out[last.p] = <<"L", "L">>
  /\ handle = last.p /\ status = "running"

\* Whether the argument list holds flag, and flag with value val.
HasFlag(args, flag) == \E i \in 1..Len(args) : args[i].flag = flag
HasArg(args, flag, val) ==
  \E i \in 1..Len(args) : args[i].flag = flag /\ args[i].val = val

\* C12: the broker is spawned with -c <generated file>, the file being on
\* disk, if and only if leaf-node mode or the MQTT bridge is enabled in the
\* configuration; otherwise it is spawned with -p <client port> and no -c,
\* and no config file is ever written or recorded.
C12_ConfigFileIffLeafOrMqtt ==
  /\ last.op = "probeDone"
       => IF cfg.enableLeafNodeMode \/ cfg.enableMqtt
          THEN /\ HasArg(last.args, "-c", configFile)
               /\ configFile = last.spawned /\ configFile \in files
               /\ ~HasFlag(last.args, "-p")
          ELSE /\ HasArg(last.args, "-p", cfg.port)
               /\ ~HasFlag(last.args, "-c")
  /\ ~(cfg.enableLeafNodeMode \/ cfg.enableMqtt)
       => files = {} /\ configFile = NoFile

\* The broker was launched in file mode because of the MQTT bridge alone.
C12_Witness ==
  /\ last.op = "probeDone" /\ proc[last.spawned] = "live"
  /\ cfg.enableMqtt /\ ~cfg.enableLeafNodeMode
  /\ last.args = <<Arg("-c", last.spawned)>>

\* The last handler ran startServer: a start or toggle command accepted with
\* no handle held, the delayed start of restart, or the auto-start timer.
StartAttempted ==
  \/ last.op \in {"restartTimer", "autoStart"}
  \/ last.op = "input" /\ last.cmd \in {"start", "toggle"} /\ last.held = NoProc

\* Whether the last handler reported an error with message m.
Reported(m) == \E i \in 1..Len(last.errs) : last.errs[i].err.msg = m

\* C13: with leaf-node mode enabled and an empty remote URL, no version probe
\* and no broker is ever spawned, no config file is written, the handle stays
\* null, and every start attempt reports the configuration error and leaves
\* the status error. No config ever written names another remote URL than
\* the configured one.
C13_LeafWithoutUrlFailsBeforeSpawn ==
  /\ (cfg.enableLeafNodeMode /\ cfg.leafRemoteUrl = "")
       => /\ probing = 0 /\ nprocs = 0 /\ last.spawned = NoProc
          /\ files = {} /\ configFile = NoFile /\ last.conf = NoConf
          /\ handle = NoProc
          /\ StartAttempted
               => /\ Reported("Leaf Node mode requires a Remote NATS Server URL")
                  /\ status = "error"
  /\ (cfg.enableLeafNodeMode /\ last.conf # NoConf)
       => \E i \in 1..Len(last.file) :
            /\ last.file[i].key = "url" /\ last.file[i].val = cfg.leafRemoteUrl
            /\ \A j \in 1..Len(last.file) : last.file[j].key = "url" => j = i

\* A start command was refused for the missing remote URL.
C13_Witness ==
  /\ cfg.enableLeafNodeMode /\ cfg.leafRemoteUrl = ""
  /\ last.op = "input" /\ last.cmd = "start"
  /\ status = "error" /\ Len(last.errs) = 3

\* C14: with binary source custom and a custom path that is unset or not on
\* disk, no version probe and no broker is ever spawned and every start
\* attempt leaves the status error, reporting "no path specified" for an
\* unset path and "not found" for a missing one, never the other; a broker
\* spawned under source custom is always the custom path.
C14_CustomBinaryNeverFallsBack ==
  /\ (cfg.binarySource = "custom" /\ cfg.customBinaryPath \notin disk)
       => /\ probing = 0 /\ nprocs = 0 /\ last.spawned = NoProc
          /\ handle = NoProc
          /\ StartAttempted
               => /\ status = "error"
                  /\ Reported("Custom binary source selected but no path specified")
                       <=> cfg.customBinaryPath = ""
                  /\ Reported("Custom binary not found")
                       <=> cfg.customBinaryPath # ""
  /\ (cfg.binarySource = "custom" /\ last.spawned # NoProc)
       => last.bin = cfg.customBinaryPath

\* A start was refused because the configured custom binary is not on disk.
C14_Witness ==
  /\ cfg.binarySource = "custom" /\ cfg.customBinaryPath = "/missing"
  /\ StartAttempted /\ last.op = "restartTimer"
  /\ Reported("Custom binary not found") /\ status = "error"

\* The install locations of source auto, in order: the candidates before the
\* plain executable name.
InstallLocations == SubSeq(PossibleBinPaths, 1, Len(PossibleBinPaths) - 1)

\* C15: with source auto the resolver returns the first install location, in
\* list order, that exists on disk, and nats-server when none exists; with
\* source system it returns nats-server whatever is on disk; a second call on
\* the same disk returns what the first returned.
C15_ResolverPicksFirstExisting ==
  last.op = "resolve"
    => /\ cfg.binarySource = "auto"
            => LET ex == {k \in 1..Len(InstallLocations) : InstallLocations[k] \in disk}
               IN /\ last.res.ok
                  /\ last.res.bin =
                       IF ex = {} THEN "nats-server"
                       ELSE InstallLocations[CHOOSE k \in ex : \A j \in ex : k <= j]
       /\ cfg.binarySource = "system"
            => last.res.ok /\ last.res.bin = "nats-server"
       /\ last.prev # <<>> => last.prev[1] = last.res

\* Source auto, resolved twice on a disk where the first three locations are
\* missing and the last two exist.
C15_Witness ==
  /\ last.op = "resolve" /\ last.n = 2 /\ cfg.binarySource = "auto"
  /\ disk = {"/usr/local/bin/nats-server", "/usr/bin/nats-server"}
  /\ last.res.bin = "/usr/local/bin/nats-server"

\* C16 as stated: whenever the probe prints no version token, exits with a
\* non-zero code or cannot be launched, the version recorded is unknown, the
\* broker is spawned, and the status is error only if the broker itself could
\* not be launched.
C16_ProbeFailureYieldsUnknown ==
  ( /\ last.op = "probeDone"
    /\ (last.probe.err \/ last.probe.code # 0 \/ MatchVersion(last.probe.output) = "") )
    => /\ version = "unknown"
       /\ last.spawned = last.p /\ proc[last.p] \in {"live", "failed"}
       /\ status = "error" <=> proc[last.p] = "failed"

\* C16 amended: whatever the probe does, the start continues: the broker is
\* spawned, and the status is error only if the broker itself could not be
\* launched. The version recorded is unknown when the probe cannot be
\* launched or prints no version token, and the printed version otherwise,
\* whatever the exit code.
C16_ProbeNeverFailsTheStart ==
  last.op = "probeDone"
    => /\ version = IF last.probe.err THEN "unknown"
                    ELSE IF last.probe.output = "nats-server: v2.10.7" THEN "2.10.7"
                    ELSE "unknown"
       /\ last.spawned = last.p /\ proc[last.p] \in {"live", "failed"}
       /\ status = "error" <=> proc[last.p] = "failed"
       /\ status \in {"starting", "error"}

\* The probe could not be launched; the broker was spawned all the same.
C16_Witness ==
  /\ last.op = "probeDone" /\ last.probe.err
  /\ version = "unknown" /\ proc[last.p] = "live" /\ status = "starting"

\* C17: a status command emits exactly one message, server.status, whose
\* running is true exactly when a handle is held, whose port and version are
\* the recorded ones and whose url is null exactly when the port is null; it
\* reports nothing else, signals and spawns nothing and changes no variable
\* of the program.
C17_StatusIsPureQuery ==
  [][ (last'.op = "input" /\ last'.cmd = "status")
        => /\ Len(last'.sent) = 1
           /\ last'.sent[1].topic = "server.status"
           /\ last'.sent[1].payload.running <=> handle # NoProc
           /\ last'.sent[1].payload.type = "embedded"
           /\ last'.sent[1].payload.port = serverPort
           /\ last'.sent[1].payload.url = <<>> <=> serverPort = NoPort
           /\ last'.sent[1].payload.version = version
           /\ last'.kills = {} /\ last'.spawned = NoProc
           /\ last'.errs = <<>> /\ last'.warns = <<>>
           /\ UNCHANGED <<cfg, disk, handle, serverPort, version, configFile, files,
                          status, probing, autoTimer, restartTimers, closed, crashed,
                          nprocs, proc, started, out, timer, promise, owed>> ]_vars

\* A status query while Starting: a handle is held and the port is still null.
C17_Witness ==
  /\ last.op = "input" /\ last.cmd = "status"
  /\ handle # NoProc /\ serverPort = NoPort /\ version = "2.10.7"
  /\ last.sent[1].payload.running /\ last.sent[1].payload.url = <<>>

\* The variables of the program, without the record of the last handler.
progVars ==
  <<cfg, disk, handle, serverPort, version, configFile, files, status, probing,
    autoTimer, restartTimers, closed, crashed, nprocs, proc, started, out, timer,
    promise, owed>>

\* The messages sent by the last handler are exactly one server.stopped.
SentStopped(sent) == Len(sent) = 1 /\ sent[1].topic = "server.stopped"

\* C18: a stop command received while no handle is held only warns: it
\* signals no process, emits nothing, reports no error and changes no
\* variable of the program.
C18_StopWhileStoppedOnlyWarns ==
  [][ (last'.op = "input" /\ last'.cmd = "stop" /\ handle = NoProc)
        => /\ last'.warns = <<"Server is not running">>
           /\ last'.kills = {} /\ last'.sent = <<>> /\ last'.errs = <<>>
           /\ UNCHANGED progVars ]_vars

\* A stop command in phase Stopped, after a broker has run and exited.
C18_Witness ==
  /\ last.op = "input" /\ last.cmd = "stop" /\ last.held = NoProc
  /\ status = "stopped" /\ nprocs > 0
  /\ last.warns # <<>>

\* C19: a restart command performs the stop transition only if a handle is
\* held: with no handle held it emits nothing and leaves status, port and
\* config file as they are; with a handle held it signals the process and
\* emits one server.stopped. In both cases it arms exactly one delayed start
\* and begins none itself.
C19_RestartStopsOnlyIfRunning ==
  [][ (last'.op = "input" /\ last'.cmd = "restart")
        => /\ handle = NoProc
                => /\ last'.sent = <<>> /\ last'.kills = {}
                   /\ UNCHANGED <<status, serverPort, configFile, files>>
           /\ handle # NoProc
                => SentStopped(last'.sent) /\ last'.kills = {handle}
           /\ restartTimers' = restartTimers + 1
           /\ probing' = probing /\ nprocs' = nprocs ]_vars

\* C20: a toggle command received while a handle is held performs the stop
\* transition and begins no start; received while no handle is held it runs
\* startServer (which suspends in the version probe, or fails validation with
\* an error) and performs no stop.
C20_ToggleStopsOrStarts ==
  [][ (last'.op = "input" /\ last'.cmd = "toggle")
        => IF handle # NoProc
           THEN /\ last'.kills = {handle} /\ SentStopped(last'.sent)
                /\ handle' = NoProc /\ serverPort' = NoPort /\ status' = "stopped"
                /\ probing' = probing /\ nprocs' = nprocs /\ last'.errs = <<>>
           ELSE /\ last'.kills = {} /\ last'.sent = <<>>
                /\ \/ probing' = probing + 1 /\ last'.errs = <<>>
                   \/ probing' = probing /\ last'.errs # <<>> /\ status' = "error" ]_vars

\* A toggle received while Starting stopped the process that was held.
C20_Witness ==
  /\ last.op = "input" /\ last.cmd = "toggle"
  /\ last.held # NoProc /\ ~started[last.held] /\ proc[last.held] = "signalled"
  /\ handle = NoProc /\ status = "stopped"

C22_CloseStopsInEveryPhase ==
  last.op = "close"
    => /\ handle = NoProc /\ serverPort = NoPort
       /\ last.held # NoProc
            => last.kills = {last.held} /\ proc[last.held] # "live"
       /\ configFile = NoFile /\ files = {}

\* Starts requested and not yet spawned: suspended in the version probe, or
\* waiting for the auto-start timer or for the delay of a restart.
PendingStarts == probing + restartTimers + (IF autoTimer THEN 1 ELSE 0)

\* C23 as stated: once a start has failed, no broker is spawned until a start,
\* restart or toggle command has been received after the failure.
C23_NoSpawnAfterFailureWithoutCommand ==
  [][ last'.op = "probeDone" => ~failedSince ]_vars

\* C23 amended: a failure is never retried. A broker is spawned only by a
\* pending start that resumes from its version probe, which that spawn uses
\* up; the brokers spawned plus the starts pending grow only when a start,
\* restart or toggle command is received, and then by one. So a spawn that
\* follows a failure belongs to a later command or to a start that was
\* already pending when the failure happened.
C23_FailureBeginsNoStart ==
  [][ /\ nprocs' # nprocs
           => /\ last'.op = "probeDone" /\ nprocs' = nprocs + 1
              /\ PendingStarts' = PendingStarts - 1
      /\ nprocs' + PendingStarts' > nprocs + PendingStarts
           => /\ last'.op = "input" /\ last'.cmd \in {"start", "restart", "toggle"}
              /\ nprocs' + PendingStarts' = nprocs + PendingStarts + 1 ]_vars

\* After a start has failed at the spawn, the delayed start of a restart that
\* was received before the failure begins, with no command in between.
C23_Witness ==
  /\ last.op = "restartTimer" /\ failedSince
  /\ nprocs = 1 /\ proc[1] = "failed" /\ handle = NoProc
  /\ probing = 1 /\ restartTimers = 0

\* The value of a sequence of decimal digits.
DecimalValue(ds) ==
  LET V[k \in 0..Len(ds)] == IF k = 0 THEN 0 ELSE 10 * V[k - 1] + DigitVal(ds[k])
  IN V[Len(ds)]

\* The units of a size and the power of 1024 each stands for.
UnitPower ==
  [u \in {<<>>, <<"B">>, <<"K", "B">>, <<"M", "B">>, <<"G", "B">>} |->
     CASE u = <<"K", "B">> -> 1 [] u = <<"M", "B">> -> 2 [] u = <<"G", "B">> -> 3
       [] OTHER -> 0]

\* Whether str is k digits followed by an optional unit, in any letter case.
IsSizeForm(str, k) ==
  /\ k \in 1..Len(str)
  /\ \A i \in 1..k : IsDigit(str[i])
  /\ ToUpperCase(SubSeq(str, k + 1, Len(str))) \in DOMAIN UnitPower

\* n * 1024^e as a byte count, for n > 0.
ScaledBytes(n, e) == [i \in 1..e |-> 0] \o ToBytes(n)

\* Whether the file holds a line key: val.
FileHas(file, key, val) ==
  \E i \in 1..Len(file) :
    file[i].key = key /\ file[i].form \in {"raw", "string"} /\ file[i].val = val

\* C24: for every max-memory-store value made of digits and an optional unit
\* B, KB, MB or GB in any letter case, the broker spawned in argument mode
\* gets --js_max_memory_store and the file written in file mode gets
\* max_memory_store with the same byte count, digits * 1024^k with k = 0, 1,
\* 2, 3; "2GB" gives 2 * 1024^3 in both modes.
C24_SizeCompilesAlike ==
  last.op = "probeDone"
    => \A k \in 1..Len(cfg.maxMemoryStore) :
         IsSizeForm(cfg.maxMemoryStore, k)
           => LET str == cfg.maxMemoryStore
                  bytes == ScaledBytes(DecimalValue(SubSeq(str, 1, k)),
                                       UnitPower[ToUpperCase(SubSeq(str, k + 1, Len(str)))])
              IN /\ IF NeedsConfigFile(cfg)
                    THEN FileHas(last.file, "max_memory_store", bytes)
                    ELSE HasArg(last.args, "--js_max_memory_store", bytes)
                 /\ HasArg(SpawnArgs([cfg EXCEPT !.enableMqtt = FALSE], NoFile),
                           "--js_max_memory_store", bytes)
                 /\ FileHas(GenerateNatsConfig(ServerConfig([cfg EXCEPT !.enableMqtt = TRUE])),
                            "max_memory_store", bytes)
                 /\ str = <<"2", "G", "B">> => bytes = <<0, 0, 0, 2>>

\* "2gb" was compiled into the config file of file mode.
C24_Witness ==
  /\ last.op = "probeDone" /\ cfg.maxMemoryStore = <<"2", "g", "b">>
  /\ cfg.enableMqtt
  /\ FileHas(last.file, "max_memory_store", <<0, 0, 0, 2>>)

\* Whether the file opens a top-level block key at line i.
BlockAt(file, key, i) ==
  /\ i \in 1..(Len(file) - 1)
  /\ file[i].key = key /\ file[i].form = "{" /\ file[i].indent = 0

\* C25: whenever the MQTT bridge is enabled, whatever the JetStream switch
\* and the server name, the config file written holds an mqtt block with the
\* configured MQTT port, a jetstream block that is not empty and a
\* server_name that is not empty; and the server.started payload reports
\* jetstream = true and mqtt.enabled = true with that port.
C25_MqttImpliesJetStreamAndName ==
  cfg.enableMqtt
    => /\ last.op = "probeDone"
            => /\ \E i \in 1..Len(last.file) :
                    /\ BlockAt(last.file, "mqtt", i)
                    /\ last.file[i + 1].key = "port"
                    /\ last.file[i + 1].val = cfg.mqttPort
               /\ \E i \in 1..Len(last.file) :
                    /\ BlockAt(last.file, "jetstream", i)
                    /\ last.file[i + 1].form # "}"
               /\ \E i \in 1..Len(last.file) :
                    /\ last.file[i].key = "server_name" /\ last.file[i].indent = 0
                    /\ last.file[i].form = "string" /\ last.file[i].val # ""
       /\ (last.op = "data" /\ last.sent # <<>>)
            => /\ last.sent[1].topic = "server.started"
               /\ last.sent[1].payload.jetstream = TRUE
               /\ last.sent[1].payload.mqtt.enabled = TRUE
               /\ last.sent[1].payload.mqtt.port = cfg.mqttPort

\* The bridge enabled with JetStream switched off and no server name
\* configured: the broker reported ready.
C25_Witness ==
  /\ cfg.enableMqtt /\ ~cfg.enableJetStream
  /\ cfg.serverName = "nats-embedded-<now>"
  /\ last.op = "data" /\ Len(last.sent) = 1
  /\ last.sent[1].payload.jetstream /\ last.sent[1].payload.mqtt.enabled

\* The lines of the file with the given key.
LinesOf(file, key) == {i \in 1..Len(file) : file[i].key = key}

\* C26: in leaf-node mode, whatever the remote user and password, the config
\* file written holds one remotes list with exactly one remote, whose url is
\* the configured one; it holds a user line exactly when a user is set and a
\* password line exactly when a password is set, each with the configured
\* value, and no credentials line.
C26_LeafRemoteEntries ==
  (cfg.enableLeafNodeMode /\ last.op = "probeDone")
    => /\ Cardinality(LinesOf(last.file, "remotes")) = 1
       /\ Cardinality(LinesOf(last.file, "url")) = 1
       /\ Cardinality({i \in 1..Len(last.file) :
                         last.file[i].form = "{" /\ last.file[i].key = ""}) = 1
       /\ FileHas(last.file, "url", cfg.leafRemoteUrl)
       /\ LinesOf(last.file, "user") # {} <=> cfg.leafRemoteUser # ""
       /\ LinesOf(last.file, "user") # {} => FileHas(last.file, "user", cfg.leafRemoteUser)
       /\ LinesOf(last.file, "password") # {} <=> cfg.leafRemotePass # ""
       /\ LinesOf(last.file, "password") # {}
            => FileHas(last.file, "password", cfg.leafRemotePass)
       /\ LinesOf(last.file, "credentials") = {}

\* A remote with user and password: the object compiled holds a null
\* credentials entry, the file written from it does not.
C26_Witness ==
  /\ cfg.enableLeafNodeMode /\ last.op = "probeDone"
  /\ cfg.leafRemoteUser = "leaf" /\ cfg.leafRemotePass = "secret"
  /\ FileHas(last.file, "user", "leaf") /\ FileHas(last.file, "password", "secret")
  /\ \E i \in 1..Len(last.conf) :
       /\ last.conf[i].key = "leafnodes"
       /\ last.conf[i].val[1].val[1][2] = Entry("credentials", "null", "")

\* C27: every server.stopped message carries a defined type, embedded or
\* leaf, the one a server.started message of the same server carries.
C27_StoppedCarriesType ==
  \A i \in 1..Len(last.sent) :
    last.sent[i].topic = "server.stopped"
      => /\ last.sent[i].payload.type \in {"embedded", "leaf"}
         /\ last.sent[i].payload.type
              = (IF EnableLeafNode(cfg) THEN "leaf" ELSE "embedded")

\* C28: the process handle is non-null only while the status is starting or
\* running; the listening port is non-null only when readiness was confirmed
\* for the process held; a non-null port implies a non-null handle.
C28_HandleAndPortFollowLifecycle ==
  /\ handle # NoProc => status \in {"starting", "running"}
  /\ serverPort # NoPort => handle # NoProc /\ started[handle]

\* C29: the instance configuration is read-only: no step of the node changes
\* any of its fields.
C29_ConfigurationIsReadOnly == [][cfg' = cfg]_vars

\* The step just taken failed to delete the temporary config file.
DeleteFailed ==
  \E i \in 1..Len(last.warns) : last.warns[i] = "Failed to delete temporary config file"

\* C30: a step that fails to delete the temporary config file only warns
\* about it and still completes: nothing is thrown, the handle and the port
\* are cleared, a stop forgets the file, ends in status stopped and emits
\* server.stopped, and an exit before readiness or a timeout still ends in
\* status error with the start rejected.
C30_DeleteFailureOnlyWarns ==
  DeleteFailed
    => /\ ~crashed
       /\ handle = NoProc /\ serverPort = NoPort
       /\ last.op \in {"input", "close"}
            => /\ configFile = NoFile /\ status = "stopped"
               /\ \E i \in 1..Len(last.sent) : last.sent[i].topic = "server.stopped"
       /\ (last.op = "exit" /\ last.pstarted) => status = "stopped"
       /\ ((last.op = "exit" /\ ~last.pstarted) \/ last.op = "timeout")
            => /\ status = "error"
               /\ promise[last.p] # "pending"
               /\ \E i \in 1..Len(last.errs) :
                    last.errs[i].pre \in {"Embedded NATS server exited before starting",
                                          "Embedded NATS server start timeout"}

\* C31: a message that names one of the five commands in msg.command is
\* dispatched as that command: it is not answered with the warning for a
\* missing command, and a start received while no handle is held begins a
\* start.
C31_MsgCommandIsDispatched ==
  (last.op = "input" /\ last.msg.command \in CmdNames)
    => /\ last.cmd = last.msg.command
       /\ \A i \in 1..Len(last.warns) : last.warns[i] # "No command specified"
       /\ (last.msg.command = "start" /\ last.held = NoProc)
            => (probing > 0 \/ last.errs # <<>>)

\* C32: the configuration an update-subjects operation passes to the update
\* call equals the configuration it has just read from the stream in every
\* field other than subjects, and equals it entirely when msg.subjects is
\* absent.
C32_UpdateSubjectsChangesOnlySubjects ==
  pub.last.op = "update"
    => LET read == pub.last.read[1]
           update == pub.last.update[1]
       IN /\ [update EXCEPT !.subjects = read.subjects] = read
          /\ pub.last.subjects.kind = "absent" => update = read

\* An update with new subjects on a stream whose other fields are not the
\* defaults, sent while another operation is in flight.
C32_Witness ==
  /\ pub.last.op = "update"
  /\ pub.last.subjects = [kind |-> "string", val |-> <<"a", ",", " ">>]
  /\ pub.last.update[1].subjects = <<<<"a">>, <<>>>>
  /\ pub.last.read[1].subjects = <<<<"b">>, <<"c">>>>
  /\ pub.last.read[1].retention = "workqueue" /\ pub.last.read[1].max_msgs = 100
  /\ \E j \in Ops : j # pub.last.i /\ pub.ops[j].pc = "update"

\* C33: the readiness of a process is detected exactly when the concatenation
\* of the chunks received from it first contains one of the two phrases, also
\* when the phrase arrives split over two chunks: the started flag of a
\* process is set exactly when its accumulated output contains a phrase, only
\* the chunk that sets it emits server.started, and it does so whenever a
\* process is held.
C33_ReadinessFollowsAccumulatedOutput ==
  /\ \A p \in Procs : started[p] <=> IsReady(out[p])
  /\ last.op = "data"
       => LET first == ~last.pstarted /\ started[last.p] IN
          /\ last.sent # <<>> => first /\ last.sent[1].topic = "server.started"
          /\ (first /\ last.held # NoProc) => Len(last.sent) = 1

\* 'Server is ready' arrives in two chunks; the second one reports readiness.
C33_Witness ==
  /\ last.op = "data" /\ out[last.p] = <<"S", "R">>
  /\ ~last.pstarted /\ started[last.p]
  /\ Len(last.sent) = 1 /\ last.sent[1].topic = "server.started"
  /\ status = "running"

\* C34: an event of a process spawned earlier than the one held (its exit,
\* a chunk of its output, its startup timer) does not signal the process held,
\* leaves the handle, the port and the status indicator as they are and
\* deletes no config file.
C34_StaleEventsLeaveLaterRunAlone ==
  [][ (last'.op \in {"exit", "data", "timeout"}
         /\ handle # NoProc /\ last'.p < handle)
        => /\ last'.kills = {}
           /\ UNCHANGED <<handle, serverPort, status, configFile, files>> ]_vars

\* C35: once the node has been closed, no broker process is spawned and no
\* process handle is held again.
C35_NoSpawnAfterClose ==
  [][ closed => /\ \A p \in Procs : proc[p] = "none" => proc'[p] # "live"
                /\ handle' = NoProc ]_vars

\* A start has passed validation and binary resolution and has neither
\* reached Running nor failed: it is suspended in the version probe, or the
\* promise of its spawn is pending.
StartUnsettled == probing > 0 \/ \E p \in Procs : promise[p] = "pending"

\* C36: every start that passes validation and binary resolution eventually
\* reaches Running or fails with a reported error, whatever the child
\* processes do.
C36_EveryStartSettles == (StartUnsettled /\ ~crashed) ~> (~StartUnsettled \/ crashed)

\* C37: after a stop command accepted while a process is held and not yet
\* ready, no event of that process (its exit, its remaining output, its
\* startup timer) reports an error, sets the port, emits server.started or
\* moves the status indicator away from stopped.
C37_StopWhileStartingEndsStopped ==
  [][ (last'.op \in {"exit", "data", "timeout"}
         /\ proc[last'.p] = "signalled" /\ handle = NoProc
         /\ status = "stopped" /\ serverPort = NoPort /\ ~started[last'.p]
         /\ probing = 0 /\ nprocs = 1 /\ restartTimers = 0 /\ ~autoTimer /\ ~closed)
        => /\ last'.errs = <<>> /\ last'.sent = <<>>
           /\ status' = "stopped" /\ serverPort' = NoPort /\ ~crashed' ]_vars

\* C38: in every server.started payload sent with HTTP monitoring
\* configured, the jsz endpoint is present exactly when the payload's
\* jetstream flag is true.
C38_JszIffJetStreamFlag ==
  \A i \in 1..Len(last.sent) :
    (last.sent[i].topic = "server.started" /\ last.sent[i].payload.httpPort # "")
      => ("jsz" \in last.sent[i].payload.endpoints <=> last.sent[i].payload.jetstream)

\* C39: at most one NATS service is registered by the service node at any
\* time, also when startService is triggered again while an earlier call is
\* awaiting the connection or the registration.
C39_AtMostOneService == Cardinality(svc.registered) <= 1

=============================================================================
